---------------------------- MODULE Spec2Model ----------------------------
(***************************************************************************)
(* A model of ArdECGPPG.ino: the 200 Hz acquisition loop, the 50 Hz notch  *)
(* filter, the differentiator, the R-peak detector with its refractory     *)
(* gate, the baseline tracker, the T-wave fit that yields the QT interval, *)
(* the PPG gate and the PAT estimator, and the median / exponential        *)
(* smoothing of the published metrics CurBPM, CurQT and CurPAT.            *)
(*                                                                         *)
(* Integers keep the width the AVR target gives them (int is 16 bits, long *)
(* is 32 bits).  A float is represented as a fixed-point number: an        *)
(* integer count of 1/FP units, products and quotients rounded towards     *)
(* zero.  The sketch's float arithmetic is IEEE single precision, so the   *)
(* low-order digits of a smoothed value may differ from the device's; the  *)
(* control flow (which branch runs, which function is called) does not     *)
(* depend on them except where a comparison is within one unit of 1/FP.    *)
(***************************************************************************)
EXTENDS Integers, Sequences, FiniteSets, TLC

----------------------------------------------------------------------------
(* Program constants *)

TFT_WIDTH == 320
TFT_HEIGHT == 240
sps == 200
SamplePeriod == 1000 \div sps
nDiff == sps \div 65
TC == 20
PPGreceivedMin == 100
mdLargeECG == 0
mdSmallECG == 1
mdPoincare == 2
mdBattery == 3
filt_a0 == 43691
filt_b2 == 21845
EnergyLimit == 10000
PlausibleLimit == 1000
PeriodMs == 5
ResyncMs == 10
ClickCount == 20
HoldCount == 255

(* alpha = exp(-1 / (2 * sps)) = 0.997503..., taken as AlphaNum / AlphaDen *)
AlphaNum == 399
AlphaDen == 400

(* resolution of the fixed-point representation of a float *)
FP == 1024

----------------------------------------------------------------------------
(* C arithmetic *)

Abs(x) == IF x < 0 THEN -x ELSE x
Min(a, b) == IF a < b THEN a ELSE b
Max(a, b) == IF a > b THEN a ELSE b
constrain(v, lo, hi) == IF v < lo THEN lo ELSE IF v > hi THEN hi ELSE v

(* conversion to int16_t, uint16_t, uint8_t: the low bits are kept *)
I16(x) == ((x + 32768) % 65536) - 32768
U16(x) == x % 65536
U8(x) == x % 256

(* C integer division and float-to-integer conversion truncate towards zero *)
DivT(a, b) ==
  IF b = 0 THEN 0
  ELSE IF (a >= 0) = (b > 0) THEN Abs(a) \div Abs(b)
  ELSE -(Abs(a) \div Abs(b))

(* the integer part of a fixed-point value *)
Trunc(v) == DivT(v, FP)

----------------------------------------------------------------------------
(* MedianOfThree and MedianOfFive, as the selection networks of the source *)

MedianOfThree(c0, d0, e0) ==
  LET c1 == IF d0 < c0 THEN d0 ELSE c0
      d1 == IF d0 < c0 THEN c0 ELSE d0
      e1 == IF e0 < c1 THEN c1 ELSE e0
  IN  IF d1 < e1 THEN d1 ELSE e1

(* the median of the middle three arguments only *)
MedianOfInnerThree(a0, b0, c0, d0, e0) == MedianOfThree(b0, c0, d0)

MedianOfFive(a0, b0, c0, d0, e0) ==
  LET s1 == b0 < a0
      a1 == IF s1 THEN b0 ELSE a0
      b1 == IF s1 THEN a0 ELSE b0
      s2 == d0 < c0
      c2 == IF s2 THEN d0 ELSE c0
      d2 == IF s2 THEN c0 ELSE d0
      s3 == c2 < a1
      b3 == IF s3 THEN d2 ELSE b1
      d3 == IF s3 THEN b1 ELSE d2
      c3 == IF s3 THEN a1 ELSE c2
      s4 == b3 < e0
      e4 == IF s4 THEN b3 ELSE e0
      b4 == IF s4 THEN e0 ELSE b3
      s5 == e4 < c3
      d5 == IF s5 THEN b4 ELSE d3
      e5 == IF s5 THEN c3 ELSE e4
  IN  IF d5 < e5 THEN d5 ELSE e5

----------------------------------------------------------------------------
(* Behaviour the C standard leaves undefined.  A build fixes each outcome;  *)
(* the model carries the build as a variable chosen at power-up and never   *)
(* changed.  "O0": 16-bit products wrap and an out-of-range float-to-int    *)
(* conversion keeps the low 16 bits.  "Os": the compiler, entitled to      *)
(* assume that signed overflow does not happen, folds x * 1000 / 200 into  *)
(* x * 5, and an out-of-range conversion saturates.                        *)

Builds == {"O0", "Os"}

(* float to int16_t / uint16_t *)
F2I16(bld, v) ==
  IF v >= -32768 /\ v <= 32767 THEN v
  ELSE IF bld = "O0" THEN I16(v)
  ELSE IF v < 0 THEN -32768 ELSE 32767

F2U16(bld, v) ==
  IF v >= 0 /\ v <= 65535 THEN v
  ELSE IF bld = "O0" THEN U16(v)
  ELSE IF v < 0 THEN 0 ELSE 65535

(* sinceRpeak * 1000 / sps in 16-bit int *)
IntervalMs(bld, sinceRpeak) ==
  IF bld = "O0" THEN DivT(I16(sinceRpeak * 1000), sps)
  ELSE I16(sinceRpeak * (1000 \div sps))

(* 60000 / (sinceRpeak * 1000 / sps): a long quotient; a zero divisor does   *)
(* not trap on the AVR, the library routine returns the all-ones quotient  *)
BpmOf(bld, sinceRpeak) ==
  LET ms == IntervalMs(bld, sinceRpeak)
  IN  IF ms = 0 THEN -1 ELSE DivT(60000, ms)

----------------------------------------------------------------------------
(* FilterNotch50HzQ1: n is the record of its statics; the result carries    *)
(* the new statics and the returned sample in out                           *)

(* an estimate that rests when the sample equals it *)
MidRests(mid, ecg) ==
  IF ecg > mid THEN mid + 1 ELSE IF ecg < mid THEN mid - 1 ELSE mid

(* the DC-offset estimate of every filter after a call with sample ecg *)
MidStep(mid, ecg) == IF ecg > mid THEN mid + 1 ELSE mid - 1

(* a filter that passes its input on *)
FilterThrough(n, ecg) ==
  [mid |-> n.mid, py |-> 0, ppy |-> 0, pecg |-> 0, ppecg |-> 0,
   out |-> constrain(ecg, 0, 1023)]

FilterNotch50HzQ1(n, ecg) ==
  LET mid == MidStep(n.mid, ecg)
      e   == ecg - mid
      y   == (filt_a0 * (e + n.ppecg) - filt_b2 * n.ppy) \div 65536
  IN  [mid |-> mid, py |-> y, ppy |-> n.py, pecg |-> e, ppecg |-> n.pecg,
       out |-> constrain(y + mid, 0, 1023)]

(* The filters that loop() does not call.  LowPassFilter returns y + mid   *)
(* as it is, the others limit it to the range of the converter.            *)
LowPassFilter(n, ecg) ==
  LET mid == MidStep(n.mid, ecg)
      e   == ecg - mid
      y   == (8775 * e + 17550 * n.pecg + 8775 * n.ppecg
                - (-50049) * n.py - 19612 * n.ppy) \div 65536
  IN  [mid |-> mid, py |-> y, ppy |-> n.py, pecg |-> e, ppecg |-> n.pecg,
       out |-> y + mid]

FilterLowPass(n, ecg) ==
  LET f == LowPassFilter(n, ecg)
  IN  [f EXCEPT !.out = constrain(@, 0, 1023)]

FilterNotch50HzQ2(n, ecg) ==
  LET mid == MidStep(n.mid, ecg)
      e   == ecg - mid
      y   == (52429 * (e + n.ppecg) - 39322 * n.ppy) \div 65536
  IN  [mid |-> mid, py |-> y, ppy |-> n.py, pecg |-> e, ppecg |-> n.pecg,
       out |-> constrain(y + mid, 0, 1023)]

FilterNotch60Hz(n, ecg) ==
  LET mid == MidStep(n.mid, ecg)
      e   == ecg - mid
      y   == (44415 * (e + n.ppecg) + 27450 * (n.pecg - n.py)
                - 23294 * n.ppy) \div 65536
  IN  [mid |-> mid, py |-> y, ppy |-> n.py, pecg |-> e, ppecg |-> n.pecg,
       out |-> constrain(y + mid, 0, 1023)]

(* a delay line whose last element is not shifted *)
differentiateShort(b, a) == <<a, b[1], b[2], b[4]>>

(* differentiate: the delay line after the shift, newest first *)
differentiate(b, a) == <<a, b[1], b[2], b[3]>>

(* findRpeak: r is [dmax, dmin] in 1/FP units; the result adds found *)
DecayMul(v) == DivT(v * AlphaNum, AlphaDen)

(* a detector that also flags a differential equal to a threshold *)
findRpeakLoose(r, diff) ==
  LET dmax1 == DecayMul(r.dmax)
      hi    == diff * FP >= dmax1
      dmin1 == DecayMul(r.dmin)
      lo    == diff * FP <= dmin1
  IN  [dmax |-> IF hi THEN diff * FP ELSE dmax1,
       dmin |-> IF lo THEN diff * FP ELSE dmin1,
       found |-> hi \/ lo]

findRpeak(r, diff) ==
  LET dmax1 == DecayMul(r.dmax)
      hi    == diff * FP > dmax1
      dmin1 == DecayMul(r.dmin)
      lo    == diff * FP < dmin1
  IN  [dmax |-> IF hi THEN diff * FP ELSE dmax1,
       dmin |-> IF lo THEN diff * FP ELSE dmin1,
       found |-> hi \/ lo]

(* findbaseline: g in 1/FP units.  f = 1 / (diff^2 + (a - g)^2 + 1) and     *)
(* g = g * (1 - f) + a * f, i.e. g moves by (a - g) * f; (a - g)^2 is taken *)
(* in 1/16 units to stay inside TLC's 32-bit integers                      *)
findbaseline(gg, a, diff) ==
  LET e   == a * FP - gg
      e16 == DivT(e, FP \div 16)
  IN  gg + DivT(e * 256, (diff * diff + 1) * 256 + e16 * e16)

----------------------------------------------------------------------------
(* The functions below take the program state s, a record with one field    *)
(* per variable of the module, and return the state after the call.  The   *)
(* field ret holds the value a function returns; the field ev records what *)
(* the current pass of loop() did (which functions ran, what was drawn).   *)

(* drawBPM: b is the int16_t argument *)
SmoothBPM(bpm, c) == DivT(bpm * 5 + c * FP, 6)

drawBPM(s, b) ==
  IF s.ignoreBeats > 0
  THEN [s EXCEPT !.ignoreBeats = @ - 1, !.ev.beats = @ + 1]
  ELSE LET p    == s.dbpm.prev
           c    == MedianOfFive(p[1], p[2], p[3], p[4], b)
           bpm1 == SmoothBPM(s.dbpm.bpm, c)
       IN  [s EXCEPT !.dbpm = [prev |-> <<b, p[1], p[2], p[3]>>, bpm |-> bpm1],
                     !.CurBPM = F2U16(s.build, Trunc(bpm1)),
                     !.ev.beats = @ + 1,
                     !.ev.beatUsed = TRUE]

(* centrePeak: the while loop adds period until b >= TFT_WIDTH *)
RECURSIVE PeriodFill(_, _)
PeriodFill(b, period) ==
  IF b < TFT_WIDTH /\ period > 0 THEN PeriodFill(b + period, period) ELSE b

centrePeak(s, period, x) ==
  LET b   == PeriodFill(period, period)
      dr1 == IF b > s.cpk.dr + 10 THEN s.cpk.dr + 10
             ELSE IF b < s.cpk.dr - 10 THEN s.cpk.dr - 10 ELSE s.cpk.dr
      dr2 == IF b > dr1 THEN dr1 + 1 ELSE dr1 - 1
      dr3 == constrain(dr2, TFT_WIDTH - 1, 2 * TFT_WIDTH)
      dt1 == IF x < 80 THEN s.cpk.dt - 1
             ELSE IF x < 160 THEN s.cpk.dt + 1 ELSE s.cpk.dt
  IN  [s EXCEPT !.cpk = [dr |-> dr3, dt |-> dt1],
                !.DisplayRepeat =
                   constrain(U16(dr3 + dt1), TFT_WIDTH - 1, 2 * TFT_WIDTH)]

(* a gate of half the length *)
RefractoryShort(sinceRpeak) == sinceRpeak < sps \div 10

(* a gate that also discards the candidate of exactly 200 ms *)
RefractoryStrict(sinceRpeak) == sinceRpeak <= sps \div 5

(* the refractory gate of RpeakFound: TRUE when the candidate is discarded *)
Refractory(sinceRpeak) == sinceRpeak < sps \div 5

(* RpeakFound: ret is the value returned to AnalyseEPG *)
RpeakFound(s, x, sinceRpeak) ==
  IF Refractory(sinceRpeak)
  THEN [s EXCEPT !.ret = 0]
  ELSE LET bpm == I16(BpmOf(s.build, sinceRpeak))
           s1  == [s EXCEPT !.lastNegDiff2 = s.lastNegDiff1, !.ev.gate = TRUE,
                            !.ev.rate = bpm]
           s2  == drawBPM(s1, bpm)
           s3  == centrePeak(s2, sinceRpeak, x)
       IN  [s3 EXCEPT !.ret = bpm]

(* HaveQT: QTs in 1/FP units.  The QTc factor                               *)
(* (0.00728 - 0.0000164 * bpm) * bpm + 0.622 is taken in units of 1/1000    *)
QTcFactor(bpm) == DivT(DivT(72800 - 164 * bpm, 100) * bpm, 100) + 622

QTcOf(bld, QT, bpm) ==
  IF bpm > 0
  THEN LET f  == QTcFactor(bpm)
           hi == DivT(f, 1000)
           lo == f - hi * 1000
       IN  F2I16(bld, QT * hi + DivT(QT * lo, 1000))
  ELSE QT

SmoothQT(QTs, QT) == DivT(QTs * 5 + QT * FP, 6)

HaveQT(s, QTinterval0, bpm) ==
  LET QTinterval == I16(QTinterval0 * SamplePeriod)
      p          == s.hqt.prev
      QT         == QTcOf(s.build,
                          MedianOfFive(p[1], p[2], p[3], p[4], QTinterval), bpm)
      QTs1       == SmoothQT(s.hqt.QTs, QT)
  IN  [s EXCEPT !.hqt = [prev |-> <<QTinterval, p[1], p[2], p[3]>>, QTs |-> QTs1],
                !.CurQT = F2U16(s.build, Trunc(QTs1)),
                !.ev.qt = @ + 1,
                !.ev.qtArg = QTinterval0]

(* AnalysePPG: diff and maxdiff in 1/FP units *)
PPGslope(diff, ppg, prevppg) == DivT(diff * (TC - 1) + (ppg - prevppg) * FP, TC)

RawPAT(tmaxdiff) == U16((tmaxdiff - TC \div 2) * SamplePeriod)

(* the raw sample smoothed with weight 1/4 *)
NewPATSmoothed(CurPAT0, raw) == U16(CurPAT0 + DivT(raw - CurPAT0, 4))

(* the value AnalysePPG gives CurPAT from the raw PAT sample *)
NewPAT(CurPAT0, raw) == raw

AnalysePPG(s, x, ppg, sinceRpeak) ==
  LET a     == s.apg
      diff1 == PPGslope(a.diff, ppg, a.prevppg)
      up    == diff1 > a.maxdiff
      tmax1 == IF up THEN sinceRpeak ELSE a.tmaxdiff
      max1  == IF up THEN diff1 ELSE a.maxdiff
  IN  IF sinceRpeak = 0
      THEN [s EXCEPT !.apg = [prevppg |-> ppg, diff |-> diff1,
                              maxdiff |-> 0, tmaxdiff |-> 0],
                     !.CurPAT = NewPAT(s.CurPAT, RawPAT(tmax1)),
                     !.ev.pat = TRUE,
                     !.ev.patT = tmax1,
                     !.ev.patPrevT = a.tmaxdiff]
      ELSE [s EXCEPT !.apg = [prevppg |-> ppg, diff |-> diff1,
                              maxdiff |-> max1, tmaxdiff |-> tmax1]]

----------------------------------------------------------------------------
(* The T-wave fit of AnalyseEPG *)

FitN == sps \div 10
FitSw == (FitN * (FitN - 1) * (FitN - 2)) \div 6

(* the triangular weight w = sinceymax * (n - 1 - sinceymax) *)
FitW(t) == t * (FitN - 1 - t)

(* the window in which a sample may become the T-wave peak candidate *)
InTWindow(sinceRpeak) == sinceRpeak > sps \div 5 /\ sinceRpeak < sps \div 2

(* Sta * Sw - St * Sa, the numerator of b.  With St = q * Sw + r it equals  *)
(* Sw * (Sta - q * Sa) - r * Sa, which stays inside TLC's 32-bit integers  *)
FitNum(Sta, Sa, St) ==
  LET q == St \div FitSw
      r == St % FitSw
  IN  FitSw * (Sta - q * Sa) - r * Sa

(* Stt * Sw - St * St, the denominator of b *)
FitDen(Stt, St) == Stt * FitSw - St * St

(* b = num / den in 1/FP units, den # 0; a nonzero slope below the         *)
(* resolution is kept at one unit so that its sign survives                *)
FitB(num, den) ==
  LET n1 == IF den > 0 THEN num ELSE -num
      d1 == Max(1, Abs(den) \div FP)
      b  == DivT(n1, d1)
  IN  IF b # 0 THEN b ELSE IF n1 < 0 THEN -1 ELSE IF n1 > 0 THEN 1 ELSE 0

(* c = (Sa - b * St) / Sw in 1/FP units *)
FitC(Sa, St, b) == DivT(Sa * FP - b * St, FitSw)

(* qi = (g - c) / b in 1/FP units of a sample, b # 0 *)
FitQi(gg, c, b) == DivT((gg - c) * FP, b)

(* the test on qi left out *)
QiUnchecked(gg, c, b) == b # 0

(* the tests that guard the call of HaveQT *)
SttPositive(Stt) == Stt > 0
SlopeFalling(b) == b < 0
QiPositive(gg, c, b) == b # 0 /\ gg # c /\ ((gg > c) = (b > 0))

(* the block run when sinceymax = n - 1: solve the line and, if the tests   *)
(* pass, hand the QT interval to HaveQT.  A zero denominator makes b        *)
(* infinite or NaN and qi NaN, so that qi > 0 is false                     *)
SolveFit(s, gg) ==
  LET e   == s.epg
      num == FitNum(e.Sta, e.Sa, e.St)
      den == FitDen(e.Stt, e.St)
      b   == FitB(num, den)
      c   == FitC(e.Sa, e.St, b)
      ok  == SttPositive(e.Stt) /\ den # 0 /\ SlopeFalling(b)
                /\ QiPositive(gg, c, b)
      qi  == FitQi(gg, c, b)
      arg == F2I16(s.build,
                   Trunc(qi + (s.lastNegDiff2 + nDiff - e.sinceymax) * FP))
      s1  == [s EXCEPT !.ev.solve = TRUE,
                       !.ev.fitStt = e.Stt,
                       !.ev.fitDen = den,
                       !.ev.fitB = b,
                       !.ev.fitC = c,
                       !.ev.fitG = gg]
  IN  IF ok THEN HaveQT(s1, arg, e.bpm) ELSE s1

(* AnalyseEPG: ecg is the uint8_t argument.  The function is the sequence   *)
(* of the steps below, each given the state its predecessor left           *)

(* the differentiator, the counters and findRpeak *)
EpgShift(s, ecg) ==
  LET buf1 == differentiate(s.buf, ecg)
      diff == I16(buf1[1] - buf1[nDiff + 1])
      r    == findRpeak(s.rpk, diff)
  IN  [s EXCEPT !.buf = buf1,
                !.lastNegDiff1 = IF diff < 0 THEN 0 ELSE I16(@ + 1),
                !.lastNegDiff2 = I16(@ + 1),
                !.rpk = [dmax |-> r.dmax, dmin |-> r.dmin],
                !.epg.sinceRpeak = I16(@ + 1),
                !.epg.sinceymax = IF @ >= 0 THEN I16(@ + 1) ELSE @,
                !.ev.epg = TRUE,
                !.ev.diff = diff,
                !.ev.sample = ecg,
                !.ev.since = I16(s.epg.sinceRpeak + 1),
                !.ev.candidate = r.found]

(* the candidate is accepted when RpeakFound returned a positive value *)
EpgAccept(s) ==
  IF s.ret > 0
  THEN [s EXCEPT !.epg.bpm = s.ret, !.epg.ymax = 0, !.epg.sinceRpeak = 0,
                 !.ev.accepted = TRUE, !.ev.interval = s.epg.sinceRpeak]
  ELSE s

EpgPeak(s, x) ==
  IF s.ev.candidate THEN EpgAccept(RpeakFound(s, x, s.epg.sinceRpeak)) ELSE s

EpgBaseline(s, ecg) == [s EXCEPT !.g = findbaseline(@, ecg, s.ev.diff)]

(* a sample above ymax inside the window becomes the T-wave peak candidate *)
EpgCandidate(s, ecg) ==
  IF InTWindow(s.epg.sinceRpeak) /\ ecg > s.epg.ymax
  THEN [s EXCEPT !.epg.ymax = ecg, !.epg.sinceymax = 0, !.epg.Stt = 0,
                 !.epg.Sta = 0, !.epg.Sa = 0, !.epg.St = 0, !.ev.tpeak = TRUE]
  ELSE s

(* the weighted sums.  Past the fit window the sums are never read before   *)
(* the next candidate clears them, and the int16_t product that forms w    *)
(* overflows: they are kept at 0 there                                     *)
EpgSums(s, ecg) ==
  LET t == s.epg.sinceymax
  IN  IF t > 0 /\ t <= FitN - 1
      THEN [s EXCEPT !.epg.Stt = @ + t * t * FitW(t),
                     !.epg.Sta = @ + t * ecg * FitW(t),
                     !.epg.Sa = @ + ecg * FitW(t),
                     !.epg.St = @ + t * FitW(t)]
      ELSE IF t > FitN - 1
      THEN [s EXCEPT !.epg.Stt = 0, !.epg.Sta = 0, !.epg.Sa = 0, !.epg.St = 0]
      ELSE s

EpgSolve(s) == IF s.epg.sinceymax = FitN - 1 THEN SolveFit(s, s.g) ELSE s

EpgPPG(s, x, ppg) == AnalysePPG(s, x, ppg, s.epg.sinceRpeak)

AnalyseEPG(s, ecg, x, ppg) ==
  EpgPPG(EpgSolve(EpgSums(EpgCandidate(EpgBaseline(EpgPeak(EpgShift(s, ecg), x),
                                                   ecg), ecg), ecg)), x, ppg)

----------------------------------------------------------------------------
(* The display routines, as far as they read or write program state *)

(* showPAT draws CurPAT only behind the PPG gate *)
PPGgateOpen(received) == received >= PPGreceivedMin

showPAT(s) ==
  IF PPGgateOpen(s.PPGreceived)
  THEN [s EXCEPT !.ev.showPAT = TRUE, !.ev.patShown = s.CurPAT]
  ELSE s

(* one more beat ignored *)
IgnoreOneMore == 2 + 1

(* what DrawGrid leaves in ignoreBeats *)
IgnoreAfterReset == 2

DrawGrid(s) ==
  [s EXCEPT !.DisplayRepeat = TFT_WIDTH, !.ignoreBeats = IgnoreAfterReset,
            !.ev.reset = TRUE]

DrawTraceLargePPG(s, x, ppg) ==
  LET s1 == IF x = 0
            THEN [s EXCEPT !.tlp.ofs = I16(s.ppgmin - 20),
                           !.ppgmin = 1024,
                           !.tlp.bShow = (ppg >= 0) /\ (s.ppgEnergy > 10),
                           !.ppgEnergy = 0]
            ELSE s
      y  == IF s1.tlp.bShow
            THEN constrain(TFT_HEIGHT - ppg + s1.tlp.ofs, 0, TFT_HEIGHT)
            ELSE 0
  IN  IF PPGgateOpen(s1.PPGreceived) /\ x < TFT_WIDTH
      THEN [s1 EXCEPT !.tlp.py = U8(y),
                      !.ev.ppgDrawn = (x > 0) /\ (y # 0 \/ s1.tlp.py # 0)]
      ELSE s1

PATatRightEdge(s, x) == IF x = TFT_WIDTH - 1 THEN showPAT(s) ELSE s

DrawTraceLargeECG(s, x, ecg, ppg) ==
  PATatRightEdge(AnalyseEPG(s, U8(ecg), x, ppg), x)

(* DrawTraceLarge with ecg >= 0 *)
DrawTraceLarge(s, ecg, ppg) ==
  LET x  == U16(s.xLarge + 1) % s.DisplayRepeat
      s1 == DrawTraceLargeECG([s EXCEPT !.xLarge = x], x, ecg, ppg)
  IN  DrawTraceLargePPG(s1, x, ppg)

DrawTraceSmallPPG(s, x, ppg) ==
  LET s1 == IF x = 1
            THEN [s EXCEPT !.tsp.ofs = IF s.ppgmin < 1024
                                         THEN DivT(s.ppgmin, 4) - 4 ELSE @,
                           !.ppgmin = 1024,
                           !.tsp.bShow = ppg >= 0,
                           !.ppgEnergy = 0]
            ELSE s
      y  == DivT(TFT_HEIGHT, 4) - DivT(ppg, 4) + s1.tsp.ofs
  IN  IF PPGgateOpen(s1.PPGreceived) /\ s1.tsp.bShow
      THEN [s1 EXCEPT !.tsp.py = U8(y), !.ev.ppgDrawn = x \div 4 > 0]
      ELSE s1

(* DrawTraceSmall with ecg >= 0; ppg arrives as uint16_t *)
DrawTraceSmall(s, ecg, ppg) ==
  LET x  == U16(s.xSmall + 1) % (TFT_WIDTH * 4)
      p  == I16(U16(ppg))
      s1 == AnalyseEPG([s EXCEPT !.xSmall = x], U8(ecg), x, p)
  IN  DrawTraceSmallPPG(s1, x, p)

(* CheckButton: high is digitalRead(BUTTON_IN), TRUE while released *)
NextMode(m) == IF m + 1 > mdPoincare THEN mdLargeECG ELSE m + 1

CheckButton(s, high) ==
  IF high THEN [s EXCEPT !.btnCnt = 0]
  ELSE LET n  == s.btnCnt + 1
           s1 == [s EXCEPT !.btnCnt = n]
           s2 == IF n = HoldCount
                 THEN DrawGrid([s1 EXCEPT !.mode = mdBattery]) ELSE s1
       IN  IF n = ClickCount
           THEN [DrawGrid([s2 EXCEPT !.mode = NextMode(s2.mode)])
                   EXCEPT !.xSmall = 0, !.xLarge = 0]
           ELSE s2

(* CheckLead returns right after counting its calls in a counter that     *)
(* nothing reads: the rest of its body, which reads the pin, sets          *)
(* ignoreBeats to 10 while the lead is off and calls DrawGrid when it is   *)
(* on again, is never executed.  off is the level of the pin.              *)
CheckLead(s, off) == s

(* pins.p and pins.n are the levels of the two lead-off pins *)
CheckLeadsOff(s, pins) == CheckLead(CheckLead(s, pins.p), pins.n)

----------------------------------------------------------------------------
(* The body of loop() when a sample is due *)

(* a deadline that advances by one millisecond less *)
NextDeadlineShort(deadline, t) ==
  IF t > deadline + ResyncMs THEN t ELSE deadline + PeriodMs - 1

(* the deadline after a pass that ran at time t *)
NextDeadline(deadline, t) ==
  IF t > deadline + ResyncMs THEN t ELSE deadline + PeriodMs

(* whether this pass's PPG value counts towards PPGreceived *)
CountsAsReceived(ppg) == ppg < PlausibleLimit

ReadsPPG(m) == m = mdLargeECG \/ m = mdSmallECG

Sample(s, t, ecgRaw, ppgRaw, high, pins) ==
  LET n      == FilterNotch50HzQ1(s.notch, ecgRaw)
      ecg    == n.out
      read   == ReadsPPG(s.mode)
      ppg0   == IF read THEN ppgRaw ELSE 0
      energy == s.ppgEnergy + Abs(ppg0 - s.prev_ppg)
      ppg    == IF energy > EnergyLimit THEN -1 ELSE ppg0
      recv   == IF CountsAsReceived(ppg) /\ s.PPGreceived < PPGreceivedMin
                THEN s.PPGreceived + 1 ELSE s.PPGreceived
      s1     == [s EXCEPT !.nextTime = NextDeadline(s.nextTime, t),
                          !.notch = [mid |-> n.mid, py |-> n.py, ppy |-> n.ppy,
                                     pecg |-> n.pecg, ppecg |-> n.ppecg],
                          !.ppgmin = IF read THEN Min(ppg0, @) ELSE @,
                          !.ppgEnergy = energy,
                          !.prev_ppg = ppg0,
                          !.PPGreceived = recv,
                          !.ev.tick = TRUE,
                          !.ev.at = t,
                          !.ev.ppgRead = read,
                          !.ev.ppgRaw = ppg0,
                          !.ev.energyHigh = energy > EnergyLimit,
                          !.ev.counted = recv # s.PPGreceived]
      s2     == IF s1.mode = mdLargeECG THEN DrawTraceLarge(s1, DivT(ecg, 4), ppg)
                ELSE IF s1.mode = mdSmallECG THEN DrawTraceSmall(s1, DivT(ecg, 4), ppg)
                ELSE IF s1.mode = mdPoincare THEN AnalyseEPG(s1, U8(DivT(ecg, 4)), 0, ppg)
                ELSE s1
  IN  CheckLeadsOff(CheckButton(s2, high), pins)

----------------------------------------------------------------------------
(* State.  The first group are the globals and the function statics of the  *)
(* sketch, build is the build that produced the firmware and ev the record *)
(* of what the latest pass of loop() did.  The second group is the         *)
(* environment: the last millis() reading, the signal sources at the two   *)
(* analog inputs, the push-button and the lead-off pins, the observer's    *)
(* counters h, the arguments and results med of the median functions,      *)
(* twin, a second device that is fed the same samples, and bank, a filter  *)
(* on the bench with its signal generator.                                 *)

VARIABLES
  nextTime, prev_ppg, mode, ignoreBeats, DisplayRepeat, lastNegDiff1,
  lastNegDiff2, CurBPM, CurQT, CurPAT, PPGreceived, ppgmin, ppgEnergy,
  notch, buf, rpk, g, epg, apg, dbpm, hqt, cpk, xLarge, xSmall, tlp, tsp,
  btnCnt, build, ev,
  now, ecgSrc, ppgSrc, btnSrc, leadSrc, h, med, twin, bank

progVars ==
  <<nextTime, prev_ppg, mode, ignoreBeats, DisplayRepeat, lastNegDiff1,
    lastNegDiff2, CurBPM, CurQT, CurPAT, PPGreceived, ppgmin, ppgEnergy,
    notch, buf, rpk, g, epg, apg, dbpm, hqt, cpk, xLarge, xSmall, tlp, tsp,
    btnCnt, build, ev>>

vars ==
  <<nextTime, prev_ppg, mode, ignoreBeats, DisplayRepeat, lastNegDiff1,
    lastNegDiff2, CurBPM, CurQT, CurPAT, PPGreceived, ppgmin, ppgEnergy,
    notch, buf, rpk, g, epg, apg, dbpm, hqt, cpk, xLarge, xSmall, tlp, tsp,
    btnCnt, build, ev, now, ecgSrc, ppgSrc, btnSrc, leadSrc, h, med, twin,
    bank>>

(* the program state as one record, with the scratch field ret *)
Prog ==
  [nextTime |-> nextTime, prev_ppg |-> prev_ppg, mode |-> mode,
   ignoreBeats |-> ignoreBeats, DisplayRepeat |-> DisplayRepeat,
   lastNegDiff1 |-> lastNegDiff1, lastNegDiff2 |-> lastNegDiff2,
   CurBPM |-> CurBPM, CurQT |-> CurQT, CurPAT |-> CurPAT,
   PPGreceived |-> PPGreceived, ppgmin |-> ppgmin, ppgEnergy |-> ppgEnergy,
   notch |-> notch, buf |-> buf, rpk |-> rpk, g |-> g, epg |-> epg,
   apg |-> apg, dbpm |-> dbpm, hqt |-> hqt, cpk |-> cpk, xLarge |-> xLarge,
   xSmall |-> xSmall, tlp |-> tlp, tsp |-> tsp, btnCnt |-> btnCnt,
   build |-> build, ev |-> ev, ret |-> 0]

(* the program variables take the values of the record s *)
Store(s) ==
  /\ nextTime' = s.nextTime
  /\ prev_ppg' = s.prev_ppg
  /\ mode' = s.mode
  /\ ignoreBeats' = s.ignoreBeats
  /\ DisplayRepeat' = s.DisplayRepeat
  /\ lastNegDiff1' = s.lastNegDiff1
  /\ lastNegDiff2' = s.lastNegDiff2
  /\ CurBPM' = s.CurBPM
  /\ CurQT' = s.CurQT
  /\ CurPAT' = s.CurPAT
  /\ PPGreceived' = s.PPGreceived
  /\ ppgmin' = s.ppgmin
  /\ ppgEnergy' = s.ppgEnergy
  /\ notch' = s.notch
  /\ buf' = s.buf
  /\ rpk' = s.rpk
  /\ g' = s.g
  /\ epg' = s.epg
  /\ apg' = s.apg
  /\ dbpm' = s.dbpm
  /\ hqt' = s.hqt
  /\ cpk' = s.cpk
  /\ xLarge' = s.xLarge
  /\ xSmall' = s.xSmall
  /\ tlp' = s.tlp
  /\ tsp' = s.tsp
  /\ btnCnt' = s.btnCnt
  /\ build' = s.build
  /\ ev' = s.ev


----------------------------------------------------------------------------
(* Bounds of the model *)

(* passes of loop() with a sample due that a behaviour of each             *)
(* specification may hold                                                  *)
EcgTicks == 124
PpgTicks == 324
TimingTicks == 5
(* the largest step of millis() between two calls of loop() *)
MaxLag == 12
(* an ECG level lasts a whole number of cells of GridTicks passes, at most *)
(* MaxHold of them                                                         *)
GridTicks == 10
MaxHold == 4
(* the PPG source may change at the first MaxPpgCells multiples of         *)
(* PpgGridTicks passes, MaxPpgMoves times at most                          *)
PpgGridTicks == 20
MaxPpgCells == 2
MaxPpgMoves == 1
(* a press of the button may begin at a multiple of BtnGridTicks passes *)
BtnGridTicks == 40
MaxClicks == 1
(* where the observer's counters stop counting *)
GapSat == 80
CountSat == 3
(* the largest argument of the median functions *)
MedMax == 4
(* two devices side by side: the passes of a behaviour, and the pass after *)
(* which the ECG waveform begins                                           *)
ModeTicks == 350
ModeDelay == 260
(* a regular heart beat: the passes of a behaviour, the passes from one    *)
(* beat to the next, and the passes that the pulse of a beat lasts         *)
BeatTicks == 2000
BeatPeriod == 160
BeatWidth == 2
(* the electrodes: the passes of a behaviour; a lead-off pin may change at *)
(* a multiple of LeadGridTicks passes, MaxLeadMoves times at most          *)
LeadTicks == 124
LeadGridTicks == 20
MaxLeadMoves == 2
(* mains hum on the bench: the samples after sample L + A that the filter  *)
(* is given to settle, and the samples of steady state that follow         *)
HumSettle == 7
HumWindow == 8
(* the five filters on the bench: the calls of a behaviour *)
BankTicks == 5
(* a long rest: the passes of a behaviour, long enough for the 16-bit      *)
(* counter sinceRpeak to come round to 0 again, and the pass after which   *)
(* the ECG waveform resumes                                                *)
LongTicks == 65620
LongDelay == 65519

(* a fall during the T wave: the passes of a behaviour, and the first and  *)
(* the last pass after which the ECG input may leave its first level       *)
FallTicks == 100
FallFrom == 41
FallUntil == 60

(* the largest reading of the 10-bit converter *)
AdcMax == 1023

(* The ECG waveforms: each is a sequence of levels at the ECG input.  The   *)
(* first has steps of growing size, each of which the R-peak detector      *)
(* takes for a candidate; the second is a beat followed by a T wave above  *)
(* the baseline that rises a second time; the third is a beat followed by  *)
(* a falling T wave below the baseline.                                    *)
Waves ==
  << <<480, 200, 900, 100>>,
     <<800, 520, 440, 560, 440>>,
     <<800, 400, 320>> >>

(* a regular heart beat: the resting level of the ECG input and the level *)
(* of the pulse that each beat makes                                       *)
BeatWave == <<100, 800>>

(* mains hum on the bench: the flat levels and the amplitudes of the hum   *)
HumLevels == {40, 100, 983}
HumAmps == {1, 10, 11, 40}

(* the five filters on the bench: the samples they may be given, the ends  *)
(* of the converter's range and values next to the estimate at power-up    *)
BankSamples == {0, 1, 2, 3, 1023}

(* the levels at which the PPG input may rest; the last is above the       *)
(* plausible range                                                         *)
PpgLevels == {300, 600, 1010}

----------------------------------------------------------------------------
(* The signal sources *)

EcgLevel(src) ==
  IF src.wave = 0 THEN BeatWave[src.pos] ELSE Waves[src.wave][src.pos]

(* the ECG source on the coming pass: inside a cell it stays; at a cell     *)
(* boundary it holds its level for another cell or moves to the next level *)
(* of its waveform; the last level lasts for ever                          *)
EcgNext ==
  IF h.ticks = 0 \/ h.ticks % GridTicks # 0 \/ ecgSrc.pos = Len(Waves[ecgSrc.wave])
  THEN {ecgSrc}
  ELSE {[ecgSrc EXCEPT !.pos = @ + 1, !.held = 1]}
         \cup (IF ecgSrc.held < MaxHold
               THEN {[ecgSrc EXCEPT !.held = @ + 1]} ELSE {})

(* the ECG source that holds every level for MaxHold cells *)
EcgSlow ==
  IF h.ticks = 0 \/ h.ticks % GridTicks # 0 \/ ecgSrc.pos = Len(Waves[ecgSrc.wave])
  THEN ecgSrc
  ELSE IF ecgSrc.held < MaxHold THEN [ecgSrc EXCEPT !.held = @ + 1]
  ELSE [ecgSrc EXCEPT !.pos = @ + 1, !.held = 1]

(* the ECG source that rests at its first level until d passes have been  *)
(* made and then lets every level last MaxHold cells                       *)
EcgLate(d) ==
  IF /\ h.ticks >= d
     /\ (h.ticks - d) % (GridTicks * MaxHold) = 0
     /\ ecgSrc.pos < Len(Waves[ecgSrc.wave])
  THEN [ecgSrc EXCEPT !.pos = @ + 1, !.held = 1]
  ELSE ecgSrc

(* the ECG source that leaves its first level after any number of passes   *)
(* from FallFrom to FallUntil and rests at its second level                *)
EcgFall ==
  IF ecgSrc.pos > 1 \/ h.ticks < FallFrom THEN {ecgSrc}
  ELSE {[ecgSrc EXCEPT !.pos = 2, !.held = 1]}
         \cup (IF h.ticks < FallUntil THEN {ecgSrc} ELSE {})

(* the ECG source of a regular heart beat: a pulse of BeatWidth passes      *)
(* every BeatPeriod passes, the first one BeatPeriod passes after power-up *)
EcgBeat ==
  [wave |-> 0,
   pos  |-> IF h.ticks >= BeatPeriod /\ h.ticks % BeatPeriod < BeatWidth
            THEN 2 ELSE 1,
   held |-> 1]

(* the PPG source either rests at a level or, as a loose probe does, jumps *)
(* between the ends of the converter's range on every pass                 *)
PpgKinds ==
  {[kind |-> "rest", level |-> l, moves |-> 0] : l \in PpgLevels}
    \cup {[kind |-> "noise", level |-> 0, moves |-> 0]}

PpgNext ==
  LET base == IF ppgSrc.kind = "noise"
              THEN [ppgSrc EXCEPT !.level = AdcMax - @] ELSE ppgSrc
  IN  IF /\ h.ticks > 0
         /\ h.ticks % PpgGridTicks = 0
         /\ h.ticks <= PpgGridTicks * MaxPpgCells
         /\ ppgSrc.moves < MaxPpgMoves
      THEN {base} \cup {[k EXCEPT !.moves = ppgSrc.moves + 1] :
                          k \in {q \in PpgKinds :
                                   \/ q.kind # ppgSrc.kind
                                   \/ q.kind = "rest" /\ q.level # ppgSrc.level}}
      ELSE {base}

(* the button: down counts the passes of the current press, 0 when         *)
(* released; a press lasts ClickCount passes                               *)
BtnNext ==
  IF btnSrc.down > 0
  THEN {[btnSrc EXCEPT !.down = IF @ < ClickCount THEN @ + 1 ELSE 0]}
  ELSE IF h.ticks % BtnGridTicks = 0 /\ btnSrc.clicks < MaxClicks
  THEN {btnSrc, [down |-> 1, clicks |-> btnSrc.clicks + 1]}
  ELSE {btnSrc}

----------------------------------------------------------------------------
(* the lead-off pins: high while the electrode is detached *)
LeadNext ==
  IF h.ticks > 0 /\ h.ticks % LeadGridTicks = 0 /\ leadSrc.moves < MaxLeadMoves
  THEN {leadSrc,
        [leadSrc EXCEPT !.p = ~@, !.moves = @ + 1],
        [leadSrc EXCEPT !.n = ~@, !.moves = @ + 1]}
  ELSE {leadSrc}

(* Two ways of pressing the button whose calls of DrawGrid fall on the     *)
(* same passes, the 20th and the 255th: held down for the first HoldCount  *)
(* passes, or clicked twice, the second press ending on pass HoldCount.    *)
(* k is the number of the pass; the result is the source on that pass.     *)
BtnHeld(k) == [down |-> IF k <= HoldCount THEN k ELSE 0, clicks |-> 0]

BtnTwice(k) ==
  [down   |-> IF k <= ClickCount THEN k
              ELSE IF k > HoldCount - ClickCount /\ k <= HoldCount
              THEN k - (HoldCount - ClickCount) ELSE 0,
   clicks |-> IF k <= ClickCount THEN 1 ELSE 2]

----------------------------------------------------------------------------
(* Power-up: the initialisers of the globals and statics, then setup(),     *)
(* whose DrawGrid sets DisplayRepeat and ignoreBeats                       *)

EvNone ==
  [tick |-> FALSE, at |-> 0, epg |-> FALSE, diff |-> 0, candidate |-> FALSE,
   gate |-> FALSE, accepted |-> FALSE, interval |-> 0, beats |-> 0,
   beatUsed |-> FALSE, tpeak |-> FALSE, solve |-> FALSE, fitStt |-> 0,
   fitDen |-> 0, fitB |-> 0, fitC |-> 0, fitG |-> 0, qt |-> 0, qtArg |-> 0,
   pat |-> FALSE, patT |-> 0, patPrevT |-> 0, showPAT |-> FALSE,
   patShown |-> 0, ppgDrawn |-> FALSE, reset |-> FALSE, ppgRead |-> FALSE,
   ppgRaw |-> 0, energyHigh |-> FALSE, counted |-> FALSE, since |-> 0,
   rate |-> 0, sample |-> 0]

HNone ==
  [ticks |-> 0, gap |-> GapSat, peakGap |-> GapSat, beats |-> 0, beatNo |-> 0,
   plausible |-> 0, qtInBeat |-> 0, tickAt |-> -1, prevTick |-> -1,
   prevDeadline |-> 0, bpmTouched |-> FALSE, qtTouched |-> FALSE,
   patTouched |-> FALSE, patHist |-> <<0, 0, 0, 0>>, patClaim |-> 0,
   regular |-> TRUE, leadCleared |-> FALSE, samples |-> <<0, 0, 0, 0>>,
   hadPeak |-> FALSE, sincePeak |-> 0, topT |-> 0, topBefore |-> 0,
   rpkWas |-> [dmax |-> 0, dmin |-> 0], sinceCall |-> GapSat,
   callGap |-> GapSat]

MedNone == [in |-> <<0, 0, 0, 0, 0>>, m3 |-> 0, m5 |-> 0, done |-> FALSE]

(* both electrodes attached: the lead-off pins are low *)
LeadsOn == [p |-> FALSE, n |-> FALSE, moves |-> 0]

(* no second device *)
NoTwin == [on |-> FALSE]

(* no filter on the bench *)
NoBank == [kind |-> "none"]

(* the statics of a filter at power-up *)
FilterZero == [mid |-> 0, py |-> 0, ppy |-> 0, pecg |-> 0, ppecg |-> 0, out |-> 0]

InitProg ==
  /\ nextTime = 0
  /\ prev_ppg = 0
  /\ mode = mdLargeECG
  /\ ignoreBeats = IgnoreAfterReset
  /\ DisplayRepeat = TFT_WIDTH
  /\ lastNegDiff1 = 0
  /\ lastNegDiff2 = 0
  /\ CurBPM = 60
  /\ CurQT = 360
  /\ CurPAT = 0
  /\ PPGreceived = 0
  /\ ppgmin = 1024
  /\ ppgEnergy = 0
  /\ notch = [mid |-> 0, py |-> 0, ppy |-> 0, pecg |-> 0, ppecg |-> 0]
  /\ buf = <<0, 0, 0, 0>>
  /\ rpk = [dmax |-> 0, dmin |-> 0]
  /\ g = (TFT_HEIGHT \div 2) * FP
  /\ epg = [bpm |-> 0, sinceRpeak |-> 1000, ymax |-> 0, sinceymax |-> 1000,
            Stt |-> 0, Sa |-> 0, St |-> 0, Sta |-> 0]
  /\ apg = [prevppg |-> 0, diff |-> 0, maxdiff |-> 0, tmaxdiff |-> 0]
  /\ dbpm = [prev |-> <<60, 60, 60, 60>>, bpm |-> 60 * FP]
  /\ hqt = [prev |-> <<50, 350, 350, 350>>, QTs |-> 350 * FP]
  /\ cpk = [dr |-> 480, dt |-> 0]
  /\ xLarge = 0
  /\ xSmall = 0
  /\ tlp = [ofs |-> 0, bShow |-> FALSE, py |-> 0]
  /\ tsp = [ofs |-> 0, bShow |-> FALSE, py |-> 0]
  /\ btnCnt = 0
  /\ ev = EvNone
  /\ now = 0
  /\ btnSrc = [down |-> 0, clicks |-> 0]
  /\ leadSrc = LeadsOn
  /\ h = HNone

----------------------------------------------------------------------------
(* The observer: counters kept beside the program to state the properties *)

Sat(n, top) == IF n > top THEN top ELSE n

(* the claimed PAT smoothing: PAT + (median of five - PAT) / 4 *)
ClaimedPAT(old, hist, raw) ==
  old + DivT(MedianOfFive(hist[1], hist[2], hist[3], hist[4], raw) - old, 4)

(* h0 and s0 are the observer and the program before the pass, s the        *)
(* program after it, l0 and l the lead-off pins on the pass before and on  *)
(* this pass                                                               *)
Observe(h0, s0, s, l0, l) ==
  LET e == s.ev
  IN  [ticks        |-> h0.ticks + 1,
       gap          |-> IF ~e.epg THEN h0.gap
                        ELSE IF e.accepted THEN 0 ELSE Sat(h0.gap + 1, GapSat),
       peakGap      |-> IF e.accepted THEN Sat(h0.gap + 1, GapSat) ELSE h0.peakGap,
       beats        |-> IF e.reset THEN 0 ELSE Sat(h0.beats + e.beats, CountSat),
       beatNo       |-> IF e.beats > 0 THEN Sat(h0.beats + 1, CountSat) ELSE 0,
       plausible    |-> IF e.ppgRead /\ e.ppgRaw < 1000 /\ ~e.energyHigh
                        THEN Sat(h0.plausible + 1, PPGreceivedMin)
                        ELSE h0.plausible,
       qtInBeat     |-> Sat((IF e.accepted THEN 0 ELSE h0.qtInBeat) + e.qt, CountSat),
       tickAt       |-> e.at,
       prevTick     |-> h0.tickAt,
       prevDeadline |-> s0.nextTime,
       bpmTouched   |-> s.CurBPM # s0.CurBPM \/ s.dbpm # s0.dbpm,
       qtTouched    |-> s.CurQT # s0.CurQT \/ s.hqt # s0.hqt,
       patTouched   |-> s.CurPAT # s0.CurPAT,
       patHist      |-> IF e.pat
                        THEN <<RawPAT(e.patPrevT), h0.patHist[1], h0.patHist[2],
                               h0.patHist[3]>>
                        ELSE h0.patHist,
       patClaim     |-> IF e.pat
                        THEN ClaimedPAT(s0.CurPAT, h0.patHist, RawPAT(e.patPrevT))
                        ELSE h0.patClaim,
       regular      |-> h0.regular /\ (e.accepted <=> h0.ticks % BeatPeriod = 0),
       leadCleared  |-> (l0.p /\ ~l.p) \/ (l0.n /\ ~l.n),
       samples      |-> IF e.epg
                        THEN <<e.sample, h0.samples[1], h0.samples[2],
                               h0.samples[3]>>
                        ELSE h0.samples,
       hadPeak      |-> h0.hadPeak \/ e.accepted,
       sincePeak    |-> IF ~e.epg THEN h0.sincePeak
                        ELSE IF e.accepted THEN 0 ELSE h0.sincePeak + 1,
       topT         |-> IF e.tpeak THEN e.sample
                        ELSE IF e.accepted THEN 0 ELSE h0.topT,
       topBefore    |-> IF e.accepted THEN 0 ELSE h0.topT,
       rpkWas       |-> s0.rpk,
       sinceCall    |-> IF ~e.epg THEN h0.sinceCall
                        ELSE IF e.beats > 0 THEN 0
                        ELSE Sat(h0.sinceCall + 1, GapSat),
       callGap      |-> IF e.beats > 0 THEN Sat(h0.sinceCall + 1, GapSat)
                        ELSE h0.callGap]

----------------------------------------------------------------------------
(* Actions *)

(* loop() called at millis() = t with a sample due: the whole pass.  e, p,  *)
(* b and l are the states of the four sources on this pass                 *)
loopPass(t, e, p, b, l) ==
  /\ t >= now
  /\ t > nextTime
  /\ LET s0 == [Prog EXCEPT !.ev = EvNone]
         s  == Sample(s0, t, EcgLevel(e), p.level, b.down = 0, l)
     IN  /\ Store(s)
         /\ h' = Observe(h, s0, s, leadSrc, l)
  /\ now' = t
  /\ ecgSrc' = e
  /\ ppgSrc' = p
  /\ btnSrc' = b
  /\ leadSrc' = l

loopSample(t, e, p, b, l) ==
  /\ loopPass(t, e, p, b, l)
  /\ UNCHANGED <<med, twin, bank>>

(* loop() called before the deadline: nothing but the clock is read *)
loopIdle(t) ==
  /\ t >= now
  /\ t <= nextTime
  /\ now' = t
  /\ ev' = EvNone
  /\ UNCHANGED <<nextTime, prev_ppg, mode, ignoreBeats, DisplayRepeat,
                 lastNegDiff1, lastNegDiff2, CurBPM, CurQT, CurPAT, PPGreceived,
                 ppgmin, ppgEnergy, notch, buf, rpk, g, epg, apg, dbpm, hqt,
                 cpk, xLarge, xSmall, tlp, tsp, btnCnt, build,
                 ecgSrc, ppgSrc, btnSrc, leadSrc, h, med, twin, bank>>

(* the same pass of loop() on the second device w: it is fed the same      *)
(* samples and lead pins and its own button; reset tells whether the first *)
(* device called DrawGrid on this pass                                     *)
TwinPass(w, t, ecgRaw, ppgRaw, high, pins, reset) ==
  LET s == Sample([w.prog EXCEPT !.ev = EvNone], t, ecgRaw, ppgRaw, high, pins)
  IN  [on         |-> TRUE,
       prog       |-> s,
       sameResets |-> w.sameResets /\ s.ev.reset = reset]

(* a pass of loop() on both devices; tb is the second device's button *)
loopPair(t, e, p, b, l, tb) ==
  /\ loopPass(t, e, p, b, l)
  /\ twin' = TwinPass(twin, t, EcgLevel(e), p.level, tb.down = 0, l, ev'.reset)
  /\ UNCHANGED <<med, bank>>

(* the k-th sample, counted from 0, of a flat level L with a 50 Hz         *)
(* sinusoid of amplitude A on it, sampled at 200 Hz: L, L+A, L, L-A        *)
HumSample(L, A, k) ==
  IF k % 4 = 1 THEN L + A ELSE IF k % 4 = 3 THEN L - A ELSE L

(* one call of FilterNotch50HzQ1 on the next sample of the hum; last holds *)
(* the four latest results, newest first                                   *)
humSample ==
  /\ bank.kind = "hum"
  /\ LET f == FilterNotch50HzQ1(bank.f, HumSample(bank.L, bank.A, bank.k))
     IN  bank' = [bank EXCEPT !.k = @ + 1,
                              !.f = f,
                              !.last = <<f.out, @[1], @[2], @[3]>>]
  /\ UNCHANGED <<progVars, now, ecgSrc, ppgSrc, btnSrc, leadSrc, h, med, twin>>

(* one call of each of the five filters on the sample a; was keeps the     *)
(* DC-offset estimates that the filters had before the call                *)
bankSample(a) ==
  /\ bank.kind = "bank"
  /\ bank' = [kind |-> "bank",
              k    |-> bank.k + 1,
              in   |-> a,
              was  |-> [lp |-> bank.lp.mid, flp |-> bank.flp.mid,
                        q1 |-> bank.q1.mid, q2 |-> bank.q2.mid,
                        n60 |-> bank.n60.mid],
              lp   |-> LowPassFilter(bank.lp, a),
              flp  |-> FilterLowPass(bank.flp, a),
              q1   |-> FilterNotch50HzQ1(bank.q1, a),
              q2   |-> FilterNotch50HzQ2(bank.q2, a),
              n60  |-> FilterNotch60Hz(bank.n60, a)]
  /\ UNCHANGED <<progVars, now, ecgSrc, ppgSrc, btnSrc, leadSrc, h, med, twin>>

(* one call of each median function on the arguments med.in *)
medians ==
  /\ ~med.done
  /\ med' = [in   |-> med.in,
             m3   |-> MedianOfThree(med.in[1], med.in[2], med.in[3]),
             m5   |-> MedianOfFive(med.in[1], med.in[2], med.in[3], med.in[4],
                                   med.in[5]),
             done |-> TRUE]
  /\ UNCHANGED <<progVars, now, ecgSrc, ppgSrc, btnSrc, leadSrc, h, twin, bank>>

----------------------------------------------------------------------------
(* The ECG pipeline: the ECG input follows one of the waveforms, the PPG    *)
(* input rests, the button may be clicked, and loop() is called one        *)
(* millisecond after each deadline                                         *)
Init ==
  /\ InitProg
  /\ build \in Builds
  /\ ecgSrc \in {[wave |-> w, pos |-> 1, held |-> 1] : w \in DOMAIN Waves}
  /\ ppgSrc = [kind |-> "rest", level |-> 300, moves |-> 0]
  /\ med = MedNone
  /\ twin = NoTwin
  /\ bank = NoBank

Next ==
  /\ h.ticks < EcgTicks
  /\ \E e \in EcgNext, b \in BtnNext : loopSample(nextTime + 1, e, ppgSrc, b, leadSrc)

Spec == Init /\ [][Next]_vars

(* The PPG pipeline: the ECG input follows the first waveform at its        *)
(* slowest, the PPG source varies, the button is not touched               *)
InitPPG ==
  /\ InitProg
  /\ build \in Builds
  /\ ecgSrc = [wave |-> 1, pos |-> 1, held |-> 1]
  /\ ppgSrc \in PpgKinds
  /\ med = MedNone
  /\ twin = NoTwin
  /\ bank = NoBank

NextPPG ==
  /\ h.ticks < PpgTicks
  /\ \E p \in PpgNext : loopSample(nextTime + 1, EcgSlow, p, btnSrc, leadSrc)

SpecPPG == InitPPG /\ [][NextPPG]_vars

(* The timing of loop(): the inputs rest and millis() advances by up to     *)
(* MaxLag between two calls                                                *)
InitTiming ==
  /\ InitProg
  /\ build \in Builds
  /\ ecgSrc = [wave |-> 1, pos |-> 1, held |-> 1]
  /\ ppgSrc = [kind |-> "rest", level |-> 300, moves |-> 0]
  /\ med = MedNone
  /\ twin = NoTwin
  /\ bank = NoBank

TimingIdle ==
  /\ h.ticks < TimingTicks
  /\ \E t \in now .. now + MaxLag : loopIdle(t)

TimingSample ==
  /\ h.ticks < TimingTicks
  /\ \E t \in now .. now + MaxLag : loopSample(t, ecgSrc, ppgSrc, btnSrc, leadSrc)

NextTiming == TimingIdle \/ TimingSample

SpecTiming == InitTiming /\ [][NextTiming]_vars

(* The median functions on every tuple of arguments up to MedMax *)
InitMedian ==
  /\ InitProg
  /\ build \in Builds
  /\ ecgSrc = [wave |-> 1, pos |-> 1, held |-> 1]
  /\ ppgSrc = [kind |-> "rest", level |-> 300, moves |-> 0]
  /\ med \in [in : [1..5 -> 0..MedMax], m3 : {0}, m5 : {0}, done : {FALSE}]
  /\ twin = NoTwin
  /\ bank = NoBank

NextMedian == medians

SpecMedian == InitMedian /\ [][NextMedian]_vars

(* Two devices fed the same samples: on the first the button is clicked    *)
(* twice, on the second it is held down, so that both call DrawGrid on the *)
(* same passes and end in different display modes; the ECG waveform begins *)
(* after the last of these passes                                          *)
InitModes ==
  /\ InitProg
  /\ build \in Builds
  /\ ecgSrc = [wave |-> 1, pos |-> 1, held |-> 1]
  /\ ppgSrc \in PpgKinds
  /\ med = MedNone
  /\ twin = [on |-> TRUE, prog |-> Prog, sameResets |-> TRUE]
  /\ bank = NoBank

NextModes ==
  /\ h.ticks < ModeTicks
  /\ \E p \in PpgNext :
       loopPair(nextTime + 1, EcgLate(ModeDelay), p, BtnTwice(h.ticks + 1),
                leadSrc, BtnHeld(h.ticks + 1))

SpecModes == InitModes /\ [][NextModes]_vars

(* A regular heart beat: the ECG input makes a pulse every BeatPeriod      *)
(* passes, the PPG input rests and the button is not touched               *)
InitBeat ==
  /\ InitProg
  /\ build \in Builds
  /\ ecgSrc = [wave |-> 0, pos |-> 1, held |-> 1]
  /\ ppgSrc = [kind |-> "rest", level |-> 300, moves |-> 0]
  /\ med = MedNone
  /\ twin = NoTwin
  /\ bank = NoBank

NextBeat ==
  /\ h.ticks < BeatTicks
  /\ loopSample(nextTime + 1, EcgBeat, ppgSrc, btnSrc, leadSrc)

SpecBeat == InitBeat /\ [][NextBeat]_vars

(* The electrodes: the ECG input follows the first waveform at its         *)
(* slowest while the lead-off pins change                                  *)
InitLead ==
  /\ InitProg
  /\ build \in Builds
  /\ ecgSrc = [wave |-> 1, pos |-> 1, held |-> 1]
  /\ ppgSrc = [kind |-> "rest", level |-> 300, moves |-> 0]
  /\ med = MedNone
  /\ twin = NoTwin
  /\ bank = NoBank

NextLead ==
  /\ h.ticks < LeadTicks
  /\ \E l \in LeadNext : loopSample(nextTime + 1, EcgSlow, ppgSrc, btnSrc, l)

SpecLead == InitLead /\ [][NextLead]_vars

(* Mains hum on the bench: FilterNotch50HzQ1 is fed a flat level with a    *)
(* 50 Hz sinusoid on it that stays inside the range of the converter       *)
InitHum ==
  /\ InitProg
  /\ build \in Builds
  /\ ecgSrc = [wave |-> 1, pos |-> 1, held |-> 1]
  /\ ppgSrc = [kind |-> "rest", level |-> 300, moves |-> 0]
  /\ med = MedNone
  /\ twin = NoTwin
  /\ bank \in {b \in {[kind |-> "hum", L |-> L, A |-> A, k |-> 0,
                         f |-> FilterZero, last |-> <<0, 0, 0, 0>>] :
                          L \in HumLevels, A \in HumAmps} :
                  b.L - b.A >= 0 /\ b.L + b.A <= AdcMax}

NextHum ==
  /\ bank.k < bank.L + bank.A + HumSettle + HumWindow
  /\ humSample

SpecHum == InitHum /\ [][NextHum]_vars

(* The five filters on the bench, all fed the same samples *)
InitBank ==
  /\ InitProg
  /\ build \in Builds
  /\ ecgSrc = [wave |-> 1, pos |-> 1, held |-> 1]
  /\ ppgSrc = [kind |-> "rest", level |-> 300, moves |-> 0]
  /\ med = MedNone
  /\ twin = NoTwin
  /\ bank = [kind |-> "bank", k |-> 0, in |-> 0,
             was |-> [lp |-> 0, flp |-> 0, q1 |-> 0, q2 |-> 0, n60 |-> 0],
             lp |-> FilterZero, flp |-> FilterZero, q1 |-> FilterZero,
             q2 |-> FilterZero, n60 |-> FilterZero]

NextBank ==
  /\ bank.k < BankTicks
  /\ \E a \in BankSamples : bankSample(a)

SpecBank == InitBank /\ [][NextBank]_vars

(* A long rest: after its first level the ECG input rests for LongDelay    *)
(* passes, more than five minutes, before the waveform goes on             *)
InitLong ==
  /\ InitProg
  /\ build \in Builds
  /\ ecgSrc = [wave |-> 1, pos |-> 1, held |-> 1]
  /\ ppgSrc = [kind |-> "rest", level |-> 300, moves |-> 0]
  /\ med = MedNone
  /\ twin = NoTwin
  /\ bank = NoBank

NextLong ==
  /\ h.ticks < LongTicks
  /\ loopSample(nextTime + 1, EcgLate(LongDelay), ppgSrc, btnSrc, leadSrc)

SpecLong == InitLong /\ [][NextLong]_vars

(* A fall during the T wave: the ECG input steps up to the first level of *)
(* the first waveform at power-up and falls to the second level between   *)
(* FallFrom and FallUntil passes later                                     *)
InitFall ==
  /\ InitProg
  /\ build \in Builds
  /\ ecgSrc = [wave |-> 1, pos |-> 1, held |-> 1]
  /\ ppgSrc = [kind |-> "rest", level |-> 300, moves |-> 0]
  /\ med = MedNone
  /\ twin = NoTwin
  /\ bank = NoBank

NextFall ==
  /\ h.ticks < FallTicks
  /\ \E e \in EcgFall : loopSample(nextTime + 1, e, ppgSrc, btnSrc, leadSrc)

SpecFall == InitFall /\ [][NextFall]_vars

----------------------------------------------------------------------------
(* Properties *)

(* C1: two accepted R-peaks are never fewer than 40 samples apart: at      *)
(* every pass that accepts an R-peak, the passes of AnalyseEPG since the   *)
(* previous accepted R-peak number at least 40.                            *)
C1_RefractoryGap == ev.accepted => h.peakGap >= 40

(* an R-peak accepted exactly 40 samples after the previous one *)
C1_Witness == ev.accepted /\ h.peakGap = 40 /\ ev.interval = 40

(* C2, as the code has it: a tick runs only when millis() is past the      *)
(* deadline; it sets the next deadline to the current time if that is more *)
(* than 10 ms past the previous deadline and to the previous deadline plus *)
(* 5 ms otherwise; so the k-th tick starts later than 5 * (k - 1) ms.      *)
C2_DeadlineRule ==
  ev.tick =>
    /\ ev.at > h.prevDeadline
    /\ nextTime = IF ev.at > h.prevDeadline + 10 THEN ev.at
                  ELSE h.prevDeadline + 5
    /\ ev.at > 5 * (h.ticks - 1)

(* a tick that starts less than 5 ms after the previous one *)
C2_Witness ==
  /\ ev.tick
  /\ h.prevTick >= 0
  /\ ev.at - h.prevTick < 5
  /\ nextTime = h.prevDeadline + 5

(* C2, as stated: the next deadline is max(now, previous deadline + 5 ms)  *)
(* and two consecutive ticks never start less than 5 ms apart.            *)
C2_AsStated ==
  ev.tick =>
    /\ nextTime = Max(ev.at, h.prevDeadline + 5)
    /\ h.prevTick >= 0 => ev.at - h.prevTick >= 5

(* the number of the five arguments below v, and not above it *)
Below(in, n, v) == Cardinality({i \in 1..n : in[i] < v})
NotAbove(in, n, v) == Cardinality({i \in 1..n : in[i] <= v})

(* v is the k-th smallest of the first n arguments *)
IsKthSmallest(in, n, k, v) == Below(in, n, v) < k /\ k <= NotAbove(in, n, v)

(* C3: MedianOfThree returns the 2nd smallest of its 3 arguments and       *)
(* MedianOfFive the 3rd smallest of its 5 arguments, ties included, and    *)
(* each result is the same for every permutation of the arguments.        *)
C3_Medians ==
  med.done =>
    /\ IsKthSmallest(med.in, 3, 2, med.m3)
    /\ IsKthSmallest(med.in, 5, 3, med.m5)
    /\ \A p \in Permutations(1..3) :
         MedianOfThree(med.in[p[1]], med.in[p[2]], med.in[p[3]]) = med.m3
    /\ \A p \in Permutations(1..5) :
         MedianOfFive(med.in[p[1]], med.in[p[2]], med.in[p[3]], med.in[p[4]],
                      med.in[p[5]]) = med.m5

(* the medians of 4, 0, 4, 2, 2: arguments out of order and with ties *)
C3_Witness ==
  /\ med.done
  /\ med.in[1] = 4 /\ med.in[2] = 0 /\ med.in[3] = 4
  /\ med.in[4] = 2 /\ med.in[5] = 2
  /\ med.m3 = 4
  /\ med.m5 = 2

(* C4: after a call of DrawGrid the next 2 beats handed to drawBPM change  *)
(* neither CurBPM nor the smoothed bpm nor the median history, and from    *)
(* the 3rd beat on drawBPM updates them.                                   *)
C4_IgnoredBeats ==
  /\ h.beatNo \in {1, 2} => ~ev.beatUsed /\ ~h.bpmTouched
  /\ h.beatNo >= 3 => ev.beatUsed

(* the 3rd beat after a reset by the button updates the heart rate *)
C4_Witness ==
  /\ h.beatNo = 3
  /\ ev.beatUsed
  /\ btnSrc.clicks = 1
  /\ mode = mdSmallECG
  /\ ev.accepted

(* C5: PAT and the PPG trace are drawn only after at least 100 plausible   *)
(* PPG samples: readings taken from the sensor with a value below 1000     *)
(* and not replaced by the invalid sentinel.                               *)
C5_AsStated == (ev.showPAT \/ ev.ppgDrawn) => h.plausible >= 100

(* C6: in no tick in which ppgEnergy exceeds 10000 is a PAT value or a     *)
(* PPG trace point drawn.                                                  *)
C6_AsStated == ev.energyHigh => ~(ev.showPAT \/ ev.ppgDrawn)

(* C7: while the PPG is invalid (ppgEnergy above 10000, or fewer than 100  *)
(* samples counted) CurPAT keeps its value.                                *)
C7_AsStated ==
  ev.tick /\ (ev.energyHigh \/ PPGreceived < 100) => ~h.patTouched

(* C8: HaveQT is called only when a fit was solved with Stt > 0, slope     *)
(* b < 0 and qi = (g - c) / b > 0, which with b < 0 is c > g; in every     *)
(* tick without the call CurQT, the smoothed QTs and the median history    *)
(* are unchanged.                                                          *)
C8_QTGuard ==
  /\ ev.qt > 0 =>
       ev.solve /\ ev.fitStt > 0 /\ ev.fitDen # 0 /\ ev.fitB < 0
         /\ ev.fitC > ev.fitG
  /\ ev.qt = 0 => ~h.qtTouched

(* a fit that passed the tests and changed the QT state *)
C8_Witness == ev.qt = 1 /\ ev.solve /\ h.qtTouched

(* C9: between two consecutive accepted R-peaks HaveQT is called at most   *)
(* once.                                                                   *)
C9_AsStated == h.qtInBeat <= 1

C11_AsStated ==
  (twin.on /\ twin.sameResets)
    => /\ CurBPM = twin.prog.CurBPM
       /\ CurQT = twin.prog.CurQT
       /\ CurPAT = twin.prog.CurPAT


(* C12: from power-up, with an R-peak accepted on the first pass and then  *)
(* exactly every 160 passes (75 beats a minute), the published CurBPM lies *)
(* in 74..76 after every pass later than the 600th.                        *)
C12_AsStated == (h.regular /\ h.ticks > 600) => (CurBPM >= 74 /\ CurBPM <= 76)


(* C13: when a lead-off condition clears (a lead-off pin that was high on  *)
(* the pass before is low on this pass), ignoreBeats is set so that at     *)
(* least the next 2 beats handed to drawBPM are discarded: after that pass *)
(* ignoreBeats is 2 or more.                                               *)
C13_AsStated == h.leadCleared => ignoreBeats >= 2


(* C14 as stated: an R-peak candidate is accepted only if more than 40     *)
(* samples have passed since the previous accepted R-peak, and a candidate *)
(* that arrives exactly 40 samples after it is discarded.                  *)
C14_AsStated ==
  /\ ev.accepted => ev.since > 40
  /\ (ev.candidate /\ ev.since = 40) => ~ev.accepted

(* C14, amended: an R-peak candidate is accepted only if at least 40       *)
(* samples (200 ms) have passed since the previous accepted R-peak.  The   *)
(* gate of RpeakFound discards exactly the candidates with sinceRpeak      *)
(* below 40: a candidate at 40 samples or more passes it, is handed to     *)
(* drawBPM once, and is accepted exactly when the rate that RpeakFound     *)
(* returns is positive.                                                    *)
C14_RefractoryGate ==
  /\ ev.accepted => (ev.candidate /\ ev.gate /\ ev.since >= 40)
  /\ ev.candidate => (ev.gate <=> ev.since >= 40)
  /\ ev.gate => (ev.candidate /\ ev.beats = 1 /\ (ev.accepted <=> ev.rate > 0))
  /\ ev.accepted => ev.interval = ev.since

(* a candidate that arrives exactly 40 samples after the accepted R-peak   *)
(* before it passes the gate and is accepted with the rate of 300 a minute *)
C14_Witness ==
  ev.candidate /\ ev.since = 40 /\ ev.gate /\ ev.accepted /\ ev.rate = 300


(* the filter on the bench has reached its steady state *)
HumSteady == bank.kind = "hum" /\ bank.k >= bank.L + bank.A + HumSettle

(* four times the distance of the i-th latest output from the mean of the  *)
(* four latest outputs, which are one period of the hum                    *)
HumDev4(i) ==
  Abs(4 * bank.last[i] - (bank.last[1] + bank.last[2] + bank.last[3] + bank.last[4]))

(* C15 as stated: in steady state the peak amplitude of the output of      *)
(* FilterNotch50HzQ1 around its mean is less than 10% of the amplitude A   *)
(* of the hum, for every A and L inside the range of the converter.        *)
C15_AsStated == HumSteady => \A i \in 1..4 : 10 * HumDev4(i) < 4 * bank.A

(* C15, amended: in steady state the output of FilterNotch50HzQ1 is itself *)
(* a period-4 sequence L, L-1, L, L+1 around the mean L, whatever A is:    *)
(* its peak amplitude is exactly 1 unit, which is less than 10% of A       *)
(* exactly when A is more than 10.                                         *)
C15_HumResidue ==
  HumSteady =>
    /\ bank.last[1] + bank.last[2] + bank.last[3] + bank.last[4] = 4 * bank.L
    /\ \A i \in 1..4 : bank.last[i] \in {bank.L - 1, bank.L, bank.L + 1}
    /\ \E i \in 1..4 : bank.last[i] = bank.L + 1
    /\ \E i \in 1..4 : bank.last[i] = bank.L - 1
    /\ (\A i \in 1..4 : 10 * HumDev4(i) < 4 * bank.A) <=> bank.A > 10

(* steady state with a hum of amplitude 10 on a level near the top of the  *)
(* range, the output one unit above the level                              *)
C15_Witness ==
  HumSteady /\ bank.A = 10 /\ bank.L = 983 /\ bank.last[1] = bank.L + 1


(* the change that a call with sample a makes to an estimate that was m *)
MidDelta(m, a) == IF a > m THEN 1 ELSE -1

(* C16: in every filter variant the DC-offset estimate mid changes by      *)
(* exactly one unit on every call: it is one more than before the call     *)
(* when the sample was greater than it, and one less otherwise.            *)
C16_MidSlew ==
  (bank.kind = "bank" /\ bank.k > 0) =>
    /\ bank.lp.mid - bank.was.lp = MidDelta(bank.was.lp, bank.in)
    /\ bank.flp.mid - bank.was.flp = MidDelta(bank.was.flp, bank.in)
    /\ bank.q1.mid - bank.was.q1 = MidDelta(bank.was.q1, bank.in)
    /\ bank.q2.mid - bank.was.q2 = MidDelta(bank.was.q2, bank.in)
    /\ bank.n60.mid - bank.was.n60 = MidDelta(bank.was.n60, bank.in)

(* a call whose sample equals the estimate, which goes down by one, after  *)
(* calls that raised it                                                    *)
C16_Witness ==
  /\ bank.kind = "bank"
  /\ bank.k > 2
  /\ bank.in = 2
  /\ bank.was.q1 = 2
  /\ bank.q1.mid = 1
  /\ bank.lp.mid = 1
  /\ bank.n60.mid = 1


(* C17: the i-th call of differentiate returns sample[i] - sample[i - 3],  *)
(* the samples before the first call taken as 0, and its delay line holds  *)
(* exactly the last 4 samples in order, newest first: h.samples is the     *)
(* observer's record of the last four samples handed to AnalyseEPG.        *)
C17_Differentiate ==
  /\ buf = h.samples
  /\ ev.epg => ev.diff = h.samples[1] - h.samples[nDiff + 1]

(* a call whose four latest samples are such that only the lag of 3 gives  *)
(* the value returned                                                      *)
C17_Witness ==
  /\ ev.epg
  /\ h.ticks > nDiff + 1
  /\ ev.diff # 0
  /\ ev.diff # h.samples[1] - h.samples[2]
  /\ ev.diff # h.samples[1] - h.samples[3]
  /\ h.samples[3] # h.samples[4]


(* C18: a sample becomes the T-wave peak candidate only on a pass where    *)
(* more than 40 and fewer than 100 samples have passed since the last      *)
(* accepted R-peak, and only if it is greater than every earlier candidate *)
(* since that R-peak.  h.sincePeak is the observer's count of the samples  *)
(* since the last accepted R-peak, h.topBefore the highest candidate since *)
(* then.                                                                   *)
C18_AsStated ==
  ev.tpeak =>
    /\ h.hadPeak
    /\ h.sincePeak > 40
    /\ h.sincePeak < 100
    /\ ev.sample > h.topBefore


(* the thresholds of findRpeak before the latest pass, after their decay,  *)
(* in 1/FP units                                                           *)
DecayedMax == (h.rpkWas.dmax * AlphaNum) \div AlphaDen
DecayedMin == -(((-h.rpkWas.dmin) * AlphaNum) \div AlphaDen)

C20_AsStated ==
  /\ (ev.gate /\ ev.beats > 0) => (ev.accepted /\ epg.sinceRpeak = 0)
  /\ ev.beats > 0 => h.callGap >= 40

(* C21, as stated: every QT interval passed to HaveQT is strictly positive *)
(* in samples: in every pass that calls HaveQT the argument, the value of  *)
(* qi - sinceymax + lastNegDiff2 + nDiff, is greater than 0, also when the *)
(* refractory gate was passed after the T-wave peak candidate.  The code   *)
(* tests qi before it adds the offsets, and passing the gate sets          *)
(* lastNegDiff2 back, so the argument can be negative.                     *)
C21_AsStated == ev.qt > 0 => ev.qtArg > 0

(* C22, as stated: after every update of CurPAT, in the tick in which      *)
(* sinceRpeak is 0, CurPAT is no greater than the length in ms of the R-R  *)
(* interval that just ended, 5 times its length in samples; subtracting    *)
(* TC / 2 = 10 samples from tmaxdiff never gives a negative value that     *)
(* wraps in the uint16_t CurPAT.  The code subtracts 10 from any tmaxdiff, *)
(* so with the steepest PPG rise fewer than 10 samples after the R-peak    *)
(* CurPAT is 65536 + (tmaxdiff - 10) * 5.                                  *)
C22_AsStated == ev.pat /\ ev.accepted => CurPAT <= 5 * ev.interval

(* C23, as stated: with 16-bit int, in every pass that passes the          *)
(* refractory gate of RpeakFound (sinceRpeak >= 40) the product            *)
(* sinceRpeak * 1000 fits a signed 16-bit int and the rate computed,       *)
(* 60000 / (sinceRpeak * 1000 / sps), is the integer part of               *)
(* 60000 / (5 * sinceRpeak).  The product exceeds 32767 from sinceRpeak =  *)
(* 33 on, so it overflows in every such pass, and the build that wraps it  *)
(* computes another rate.                                                  *)
C23_AsStated ==
  ev.gate =>
    /\ ev.since >= sps \div 5
    /\ ev.since * 1000 \in -32768 .. 32767
    /\ ev.rate = 60000 \div (5 * ev.since)

============================================================================
